---------------------------- MODULE Spec2Model ----------------------------
(***************************************************************************)
(* folder-rs: a client-side sharded inverted-index search engine.          *)
(*                                                                         *)
(* Two variants of one engine are modelled side by side:                   *)
(*   native  (src/src/lib.rs)            synchronous, files on disk        *)
(*   web     (src/folder-rs-web/src/lib.rs)  async, HTTP fetches; a search *)
(*           is a task that suspends at every .await and other tasks of    *)
(*           the same handle may run in between.                           *)
(*                                                                         *)
(* Strings are TLA+ strings; their code points are given by CodePoints,    *)
(* which is what the analyzer and the router work on.  Numbers of the      *)
(* router keep their machine width (little-endian base-256 limbs).         *)
(* Scores are f64 values of the shape sum_t tf_t * log10(N_t / df_t); they *)
(* are kept exactly as the rational prod_t (N_t/df_t)^tf_t (log10 is       *)
(* monotone), together with the IEEE special values -inf and NaN that      *)
(* log10(0) produces.  Rounding of f64 is not modelled.                    *)
(***************************************************************************)
EXTENDS Integers, Sequences, FiniteSets, TLC

(***************************************************************************)
(* Strings and their code points                                           *)
(***************************************************************************)
CodePoints ==
       "" :> <<>> @@
       "lunar" :> <<108, 117, 110, 97, 114>> @@
       "new" :> <<110, 101, 119>> @@
       "year" :> <<121, 101, 97, 114>> @@
       "happy" :> <<104, 97, 112, 112, 121>> @@
       "festival" :> <<102, 101, 115, 116, 105, 118, 97, 108>> @@
       "day" :> <<100, 97, 121>> @@
       "sun" :> <<115, 117, 110>> @@
       "xx" :> <<120, 120>> @@
       "moon" :> <<109, 111, 111, 110>> @@
       "the" :> <<116, 104, 101>> @@
       "and" :> <<97, 110, 100>> @@
       "d0" :> <<100, 48>> @@
       "d1" :> <<100, 49>> @@
       "d2" :> <<100, 50>> @@
       "d3" :> <<100, 51>> @@
       "d4" :> <<100, 52>> @@
       "d5" :> <<100, 53>> @@
       "d6" :> <<100, 54>> @@
       "lunar new year" :> <<108, 117, 110, 97, 114, 32, 110, 101, 119, 32, 121, 101, 97, 114>> @@
       "Happy, moon" :> <<72, 97, 112, 112, 121, 44, 32, 109, 111, 111, 110>> @@
       "festival day" :> <<102, 101, 115, 116, 105, 118, 97, 108, 32, 100, 97, 121>> @@
       "happy " :> <<104, 97, 112, 112, 121, 32>> @@
       "The AND" :> <<84, 104, 101, 32, 65, 78, 68>>

Str == DOMAIN CodePoints

\* The string whose code points are cs.
Intern(cs) == CHOOSE s \in Str : CodePoints[s] = cs

(***************************************************************************)
(* Analyzer                                                                *)
(***************************************************************************)
\* ',' '、' '　' ' '
Delimiters == {44, 12289, 12288, 32}

\* ! " # $ % & ( ) * + , - . / : ; < = > ? @ [ \ ] ^ _ ` { | } ~
PUNCTUATIONS ==
    {33, 34, 35, 36, 37, 38, 40, 41, 42, 43, 44, 45, 46, 47, 58, 59, 60, 61,
     62, 63, 64, 91, 92, 93, 94, 95, 96, 123, 124, 125, 126}

STOP_WORDS ==
    {"a", "and", "are", "as", "at", "be", "but", "by", "for",
     "if", "in", "into", "is", "it", "no", "not", "of", "on",
     "or", "s", "such", "t", "that", "the", "their", "then",
     "there", "these", "they", "this", "to", "was", "will",
     "with", "www"}

\* str::split on a set of chars: n delimiters give n+1 fragments, empty ones kept.
RECURSIVE SplitFrom(_, _, _)
SplitFrom(cs, i, cur) ==
    IF i > Len(cs) THEN <<cur>>
    ELSE IF cs[i] \in Delimiters THEN <<cur>> \o SplitFrom(cs, i + 1, <<>>)
    ELSE SplitFrom(cs, i + 1, Append(cur, cs[i]))

Split(cs) == SplitFrom(cs, 1, <<>>)

\* char lowercase (the ASCII range; the vocabulary holds no other cased letter)
LowerChar(c) == IF c >= 65 /\ c <= 90 THEN c + 32 ELSE c

lowercase_filter(frags) == [i \in 1..Len(frags) |-> [j \in 1..Len(frags[i]) |-> LowerChar(frags[i][j])]]

RemovePunct(cs) == SelectSeq(cs, LAMBDA c : c \notin PUNCTUATIONS)

punctuation_filter(frags) == [i \in 1..Len(frags) |-> RemovePunct(frags[i])]

\* stop_word_filter without its STOP_WORDS test
stop_word_filter_keeps_all(frags) == [i \in 1..Len(frags) |-> RemovePunct(frags[i])]

stop_word_filter(frags) ==
    LET kept == SelectSeq(frags, LAMBDA f : Intern(f) \notin STOP_WORDS)
    IN  [i \in 1..Len(kept) |-> RemovePunct(kept[i])]

\* analyze: the token list of a query, as strings.
analyze(q) ==
    LET frags == stop_word_filter(punctuation_filter(lowercase_filter(Split(CodePoints[q]))))
    IN  [i \in 1..Len(frags) |-> Intern(frags[i])]

(***************************************************************************)
(* Router: fixed-width wrapping arithmetic on little-endian base-256 limbs *)
(***************************************************************************)
Q == 123456789

LimbBase == 2^8

\* usize of the native build (64-bit target) and u32 of the web build, in limbs
WidthOf(variant) == IF variant = "web" THEN 4 ELSE 8

RECURSIVE ToLimbs(_, _)
ToLimbs(x, w) == IF w = 0 THEN <<>> ELSE <<x % LimbBase>> \o ToLimbs(x \div LimbBase, w - 1)

RECURSIVE AddLimbs(_, _, _, _)
AddLimbs(a, b, i, carry) ==
    IF i > Len(a) THEN <<>>
    ELSE LET s == a[i] + b[i] + carry
         IN  <<s % LimbBase>> \o AddLimbs(a, b, i + 1, s \div LimbBase)

RECURSIVE ColumnSum(_, _, _, _)
ColumnSum(a, b, k, i) == IF i > k THEN 0 ELSE a[i] * b[k + 1 - i] + ColumnSum(a, b, k, i + 1)

RECURSIVE MulLimbs(_, _, _, _)
MulLimbs(a, b, k, carry) ==
    IF k > Len(a) THEN <<>>
    ELSE LET s == carry + ColumnSum(a, b, k, 1)
         IN  <<s % LimbBase>> \o MulLimbs(a, b, k + 1, s \div LimbBase)

RECURSIVE ModLimbs(_, _, _, _)
ModLimbs(a, n, i, r) == IF i = 0 THEN r ELSE ModLimbs(a, n, i - 1, (r * LimbBase + a[i]) % n)

\* result += Q + c*c for every char, then result *= Q (wrapping at width w)
RECURSIVE HashFrom(_, _, _, _)
HashFrom(cs, i, acc, w) ==
    IF i > Len(cs) THEN MulLimbs(acc, ToLimbs(Q, w), 1, 0)
    ELSE HashFrom(cs, i + 1, AddLimbs(acc, ToLimbs(Q + cs[i] * cs[i], w), 1, 0), w)

HashTable == [w \in {4, 8} |-> [s \in Str |-> HashFrom(CodePoints[s], 1, ToLimbs(0, w), w)]]

\* calculate_shard_id with the remainder taken by shard_count + 1
calculate_shard_id_off_by_one(variant, s, shard_count) ==
    LET h == HashTable[WidthOf(variant)][s] IN ModLimbs(h, shard_count + 1, Len(h), 0)

\* calculate_shard_id; the caller guards shard_count # 0 (the remainder panics on 0)
calculate_shard_id(variant, s, shard_count) ==
    LET h == HashTable[WidthOf(variant)][s] IN ModLimbs(h, shard_count, Len(h), 0)

(***************************************************************************)
(* Blob source: the artifacts of one prebuilt index (shard_count = 2).     *)
(* Every token and document id lives in the shard the router gives it.     *)
(*   tst line: term, document ids      dst line: id, <<term, frequency>>s  *)
(*   dcs: a header row, then one row per document                          *)
(***************************************************************************)
Blob ==
    [ shard_count |-> 2,
      tst |-> ( 0 :> << [term |-> "xx",       document_ids |-> <<"d0">>],
                        [term |-> "festival", document_ids |-> <<"d2">>] >> @@
                1 :> << [term |-> "sun",   document_ids |-> <<"d5">>],
                        [term |-> "lunar", document_ids |-> <<"d1", "d2">>],
                        [term |-> "new",   document_ids |-> <<"d1", "d2", "d3">>],
                        [term |-> "year",  document_ids |-> <<"d1", "d3">>],
                        [term |-> "happy", document_ids |-> <<"d2", "d4">>],
                        [term |-> "day",   document_ids |-> <<"d4", "d5">>] >> ),
      dst |-> ( 0 :> << [id |-> "d0", tfs |-> << <<"xx", 1>> >>],
                        [id |-> "d2", tfs |-> << <<"lunar", 1>>, <<"new", 2>>, <<"happy", 2>>, <<"festival", 1>> >>],
                        [id |-> "d4", tfs |-> << <<"happy", 1>>, <<"day", 1>> >>],
                        [id |-> "d6", tfs |-> << <<"xx", 1>> >>] >> @@
                1 :> << [id |-> "d5", tfs |-> << <<"sun", 1>>, <<"day", 1>> >>],
                        [id |-> "d1", tfs |-> << <<"lunar", 2>>, <<"new", 1>>, <<"year", 1>> >>],
                        [id |-> "d3", tfs |-> << <<"new", 1>>, <<"year", 2>> >>] >> ),
      dcs |-> ( 0 :> << <<"id", "title">>, <<"d0", "xx">>, <<"d2", "happy">>, <<"d4", "happy">>, <<"d6", "xx">> >> @@
                1 :> << <<"id", "title">>, <<"d5", "sun">>, <<"d1", "lunar">>, <<"d3", "day">> >> ) ]

Categories == {"tst", "dst", "dcs"}
Shards == 0 .. (Blob.shard_count - 1)

(***************************************************************************)
(* Record decoder                                                          *)
(***************************************************************************)
\* csv::Reader::from_reader keeps has_headers = true: records() leaves out
\* the first line of the payload.
CsvRecords(lines) == IF lines = <<>> THEN <<>> ELSE Tail(lines)

\* insert_term_stats_document_ids: append to the posting list of term
insert_term_stats_document_ids(term_stats, term, document_ids) ==
    LET old == IF term \in DOMAIN term_stats THEN term_stats[term] ELSE <<>>
    IN  [t \in DOMAIN term_stats \cup {term} |->
            IF t = term THEN old \o document_ids ELSE term_stats[t]]

RECURSIVE TermStatsFold(_, _, _)
TermStatsFold(term_stats, recs, i) ==
    IF i > Len(recs) THEN term_stats
    ELSE TermStatsFold(
            insert_term_stats_document_ids(term_stats, recs[i].term, recs[i].document_ids),
            recs, i + 1)

\* load_term_stats_from_reader / load_term_stats_from_response
load_term_stats_from_reader(term_stats, lines) == TermStatsFold(term_stats, CsvRecords(lines), 1)

\* one `term:frequency` of a document-stats record: last write wins
InsertTermFrequency(document_stats, id, term, frequency) ==
    LET old == IF id \in DOMAIN document_stats THEN document_stats[id] ELSE <<>>
        new == [t \in DOMAIN old \cup {term} |-> IF t = term THEN frequency ELSE old[t]]
    IN  [d \in DOMAIN document_stats \cup {id} |-> IF d = id THEN new ELSE document_stats[d]]

RECURSIVE TfsFold(_, _, _, _)
TfsFold(document_stats, id, tfs, j) ==
    IF j > Len(tfs) THEN document_stats
    ELSE TfsFold(InsertTermFrequency(document_stats, id, tfs[j][1], tfs[j][2]), id, tfs, j + 1)

RECURSIVE DocumentStatsFold(_, _, _)
DocumentStatsFold(document_stats, recs, i) ==
    IF i > Len(recs) THEN document_stats
    ELSE DocumentStatsFold(TfsFold(document_stats, recs[i].id, recs[i].tfs, 1), recs, i + 1)

\* load_document_stats_from_reader / load_document_stats_from_response
load_document_stats_from_reader(document_stats, lines) ==
    DocumentStatsFold(document_stats, CsvRecords(lines), 1)

\* A document body: the map from each header (a dotted path) to its cell.
\* native set_field works on a clone of the document and skips every key the
\* clone does not hold yet, so the document stays the empty object.
\* web dot_set stores the cell at the path.
document_from_record(variant, headers, record) ==
    IF variant = "native" THEN <<>>
    ELSE [h \in {headers[i] : i \in 2..Len(headers)} |->
            record[CHOOSE i \in 2..Len(headers) : headers[i] = h]]

RECURSIVE DocumentsFold(_, _, _, _, _)
DocumentsFold(variant, documents, headers, recs, i) ==
    IF i > Len(recs) THEN documents
    ELSE LET id  == recs[i][1]
             doc == document_from_record(variant, headers, recs[i])
         IN  DocumentsFold(variant,
                [d \in DOMAIN documents \cup {id} |-> IF d = id THEN doc ELSE documents[d]],
                headers, recs, i + 1)

\* load_documents_from_reader (native): records() has already left out the
\* header row, and the loop takes its first record as the headers.
\* load_documents_from_response (web): headers() is the header row.
load_documents_from_reader(variant, documents, lines) ==
    LET recs == CsvRecords(lines)
    IN  IF variant = "native"
        THEN IF recs = <<>> THEN documents
             ELSE DocumentsFold(variant, documents, Head(recs), Tail(recs), 1)
        ELSE IF lines = <<>> THEN documents
             ELSE DocumentsFold(variant, documents, Head(lines), recs, 1)

(***************************************************************************)
(* Query engine: the pure parts                                            *)
(***************************************************************************)
Range(f) == {f[i] : i \in DOMAIN f}

Min(a, b) == IF a < b THEN a ELSE b

RECURSIVE Pow(_, _)
Pow(b, e) == IF e = 0 THEN 1 ELSE b * Pow(b, e - 1)

\* find_documents: the final HashSet, as a set
RECURSIVE FindFrom(_, _, _, _)
FindFrom(term_stats, tokens, i, document_ids_set) ==
    IF i > Len(tokens) THEN document_ids_set
    ELSE IF tokens[i] \notin DOMAIN term_stats
         THEN FindFrom(term_stats, tokens, i + 1, document_ids_set)
    ELSE LET ids == Range(term_stats[tokens[i]])
         IN  IF Cardinality(document_ids_set) = 0
                 THEN FindFrom(term_stats, tokens, i + 1, ids)
             ELSE IF Cardinality(document_ids_set) = 1
                 THEN document_ids_set
             ELSE FindFrom(term_stats, tokens, i + 1, document_ids_set \cap ids)

find_documents(term_stats, tokens) == FindFrom(term_stats, tokens, 1, {})

\* HashSet::into_iter: the elements in an order the hasher decides
RECURSIVE Orders(_)
Orders(S) ==
    IF S = {} THEN {<<>>}
    ELSE UNION {{<<e>> \o o : o \in Orders(S \ {e})} : e \in S}

\* f64 scores.  kind "fin" stands for log10(num / den).
ScoreZero == [kind |-> "fin", num |-> 1, den |-> 1]
NegInf == [kind |-> "neginf", num |-> 0, den |-> 1]
NaN == [kind |-> "nan", num |-> 0, den |-> 1]

\* document_frequency: the posting list's length (the caller guards that
\* the token has an entry: indexing the map panics otherwise)
document_frequency(term_stats, token) == Len(term_stats[token])

\* the count idf divides: documents.len() (native), document_stats.len() (web)
IdfNumerator(variant, idx) ==
    IF variant = "native" THEN Cardinality(DOMAIN idx.documents)
    ELSE Cardinality(DOMAIN idx.document_stats)

\* tf * inverse_document_frequency, with idf = log10(n / df)
\* (df >= 1: a posting list always holds at least one id)
TfIdf(tf, n, df) ==
    IF n = 0 THEN (IF tf = 0 THEN NaN ELSE NegInf)
    ELSE [kind |-> "fin", num |-> Pow(n, tf), den |-> Pow(df, tf)]

\* score += term
ScoreAdd(a, b) ==
    IF a.kind = "nan" \/ b.kind = "nan" THEN NaN
    ELSE IF a.kind = "neginf" \/ b.kind = "neginf" THEN NegInf
    ELSE [kind |-> "fin", num |-> a.num * b.num, den |-> a.den * b.den]

\* partial_cmp of two scores, neither NaN: -1, 0 or 1
Cmp(a, b) ==
    IF a.kind = "neginf" THEN (IF b.kind = "neginf" THEN 0 ELSE -1)
    ELSE IF b.kind = "neginf" THEN 1
    ELSE IF a.num * b.den < b.num * a.den THEN -1
    ELSE IF a.num * b.den > b.num * a.den THEN 1
    ELSE 0

\* the comparator handed to sort_by:
\* native a.score.partial_cmp(&b.score), web b.1.partial_cmp(&a.1)
SortCmp(variant, a, b) == IF variant = "native" THEN Cmp(a.score, b.score) ELSE Cmp(b.score, a.score)

\* term_frequency once the document-stat lookup is done
term_frequency(document_stats, document_id, token) ==
    IF document_id \notin DOMAIN document_stats THEN 0
    ELSE IF token \notin DOMAIN document_stats[document_id] THEN 0
    ELSE document_stats[document_id][token]

\* slice::sort_by is stable: an element goes behind every element that
\* does not compare greater than it
RECURSIVE InsertSorted(_, _, _, _)
InsertSorted(variant, sorted, e, i) ==
    IF i > Len(sorted) THEN Append(sorted, e)
    ELSE IF SortCmp(variant, sorted[i], e) > 0
         THEN SubSeq(sorted, 1, i - 1) \o <<e>> \o SubSeq(sorted, i, Len(sorted))
    ELSE InsertSorted(variant, sorted, e, i + 1)

RECURSIVE SortFrom(_, _, _, _)
SortFrom(variant, entries, i, sorted) ==
    IF i > Len(entries) THEN sorted
    ELSE SortFrom(variant, entries, i + 1, InsertSorted(variant, sorted, entries[i], 1))

StableSort(variant, entries) == SortFrom(variant, entries, 1, <<>>)

\* partial_cmp(..).unwrap() panics on NaN as soon as anything is compared
SortPanics(entries) == Len(entries) >= 2 /\ \E i \in 1..Len(entries) : entries[i].score.kind = "nan"

\* fetch_hits: the positions (1-based) of the sorted list that make the page;
\* native slices document_ids[from..from+n], which panics past the end
PagePanics(variant, len, size, from) ==
    /\ variant = "native"
    /\ ~(size = 0 \/ from >= len)
    /\ from + Min(len, size) > len

\* fetch_hits without its `size == 0` return and its `n = size` cut
PagePositionsIgnoringSize(variant, len, size, from) ==
    IF from >= len THEN <<>> ELSE [k \in 1..(len - from) |-> from + k]

\* fetch_hits without its `if n > size { n = size }`
PagePositionsWithoutCut(variant, len, size, from) ==
    IF size = 0 \/ from >= len THEN <<>> ELSE [k \in 1..(len - from) |-> from + k]

PagePositions(variant, len, size, from) ==
    IF size = 0 \/ from >= len THEN <<>>
    ELSE LET n == Min(len, size)
             last == IF variant = "native" THEN from + n ELSE Min(from + n, len)
         IN  [k \in 1..(last - from) |-> from + k]

(***************************************************************************)
(* State                                                                   *)
(***************************************************************************)
\* the number of search calls made on the handle
MaxSearches == 2

TaskIds == 1..MaxSearches

Queries == {"lunar new year", "happy", "Happy, moon", "festival day", "The AND", "day"}

\* SearchOptions (size, from, use_cache): DEFAULT_SEARCH_OPTIONS, other
\* (size, from) pairs, and the web Default::default() with use_cache = false.
\* The native struct has no use_cache field: its searches always run on the
\* handle's own maps.
SearchOpts == {<<1, 0, TRUE>>, <<10, 0, TRUE>>, <<0, 0, TRUE>>, <<10, 1, TRUE>>, <<10, 0, FALSE>>}

\* what the shard_count artifact may hold: the Blob's count, or 0
ShardCountArtifacts == {0, Blob.shard_count}

\* HTTP status of a response the fetch promise resolves with
Statuses == {200, 404}

\* the shard artifacts the server may not have (it answers 404 for them, or
\* 200 once they are there); every other shard artifact is answered 200
MissingArtifacts == {<<"tst", 0>>, <<"dcs", 0>>}

StatusesOf(cat, shard) == IF <<cat, shard>> \in MissingArtifacts THEN Statuses ELSE {200}

\* the body of a non-2xx response, as lines: an error page of one line
ErrorPage == << <<"Not Found">> >>

\* how many non-2xx responses the server gives over a run
MaxBadResponses == 1

TokensOf == [q \in Queries |-> analyze(q)]

VARIABLES
    variant,    \* "native" or "web": which build the handle belongs to
    index,      \* index[0]: the Index the handle owns; index[t]: the Index
                \* search_with_options builds for task t when use_cache is false
    loader,     \* web: where IndexHandle::load stands
    tasks,      \* one record per search call: its position and its locals
    running,    \* the task that holds the (single) thread, 0 when none does
    crashed,    \* a panic has ended the program
    fetches,    \* history: blob-source calls per category and shard
    ingests     \* history: artifacts merged into the handle's own store (index[0])
                \* per category and shard

vars == <<variant, index, loader, tasks, running, crashed, fetches, ingests>>

\* Index::new
NewIndex(shard_count) ==
    [ documents |-> <<>>,
      document_stats |-> <<>>,
      term_stats |-> <<>>,
      shard_count |-> shard_count,
      loaded_documents_shards |-> {},
      loaded_document_stats_shards |-> {},
      loaded_term_stats_shards |-> {} ]

\* history: the three maps of a store, as they are at some moment
Snapshot(idx) ==
    [documents |-> idx.documents, document_stats |-> idx.document_stats,
     term_stats |-> idx.term_stats]

\* snap: the maps of the handle's store when the search was started, kept
\* by the searches started after another has returned;
\* log: the blob-source calls of the task, <<category, shard, key>>, where
\* key is the token or document id that was routed; calls: every
\* load_*_from_shard call, fetched or not; bad: the calls answered non-2xx
IdleTask ==
    [ pc |-> "idle", q |-> "", size |-> 0, from |-> 0, use_cache |-> TRUE, sid |-> 0,
      key |-> "", status |-> 200, calls |-> <<>>, bad |-> <<>>,
      snap |-> Snapshot(NewIndex(0)),
      i |-> 0, cands |-> <<>>, ci |-> 0, ti |-> 0, acc |-> ScoreZero,
      entries |-> <<>>, sorted |-> <<>>, page |-> <<>>, hi |-> 0,
      hits |-> <<>>, count |-> 0,
      cat |-> "", shard |-> 0, ret |-> "",
      outcome |-> "", log |-> <<>>, after |-> {}, overlapped |-> FALSE,
      held |-> FALSE, idf_counts |-> {} ]

\* native: Index::load has parsed the shard_count artifact.
\* web: IndexHandle::new (shard_count is 0 until load has run).
Init ==
    /\ variant \in {"native", "web"}
    /\ \E n \in ShardCountArtifacts :
          index = (0 :> NewIndex(IF variant = "native" THEN n ELSE 0))
    /\ loader = IF variant = "native" THEN "done" ELSE "new"
    /\ tasks = [t \in TaskIds |-> IdleTask]
    /\ running = 0
    /\ crashed = FALSE
    /\ fetches = [c \in Categories |-> [k \in Shards |-> 0]]
    /\ ingests = [c \in Categories |-> [k \in Shards |-> 0]]

InFlight == {t \in TaskIds : tasks[t].pc \notin {"idle", "done"}}

(***************************************************************************)
(* IndexHandle::load (web): two awaits, then shard_count is set            *)
(***************************************************************************)
LoadStart ==
    /\ ~crashed /\ running = 0 /\ loader = "new"
    /\ loader' = "fetch"
    /\ UNCHANGED <<variant, index, tasks, running, crashed, fetches, ingests>>

\* a status of the 2xx class
IsSuccess(status) == status \div 100 = 2

\* the fetch promise resolves with a Response, whatever its status is
LoadFetched(status) ==
    /\ ~crashed /\ running = 0 /\ loader = "fetch"
    /\ loader' = IF IsSuccess(status) THEN "text" ELSE "text_non2xx"
    /\ UNCHANGED <<variant, index, tasks, running, crashed, fetches, ingests>>

\* the fetch promise, or the text promise, is rejected
LoadFailed ==
    /\ ~crashed /\ running = 0 /\ loader \in {"fetch", "text", "text_non2xx"}
    /\ loader' = "failed"
    /\ UNCHANGED <<variant, index, tasks, running, crashed, fetches, ingests>>

\* load_shard_count_from_response: text.parse::<usize>().unwrap(), with no
\* look at the status: the artifact's number is stored as it is, and an
\* error page does not parse, which panics
LoadText(n) ==
    /\ ~crashed /\ running = 0 /\ loader \in {"text", "text_non2xx"}
    /\ IF loader = "text"
       THEN /\ loader' = "done"
            /\ index' = [index EXCEPT ![0].shard_count = n]
            /\ UNCHANGED crashed
       ELSE /\ loader' = "panicked"
            /\ crashed' = TRUE
            /\ UNCHANGED index
    /\ UNCHANGED <<variant, tasks, running, fetches, ingests>>

(***************************************************************************)
(* Shard loading                                                           *)
(***************************************************************************)
LoadedSet(idx, cat) ==
    IF cat = "tst" THEN idx.loaded_term_stats_shards
    ELSE IF cat = "dst" THEN idx.loaded_document_stats_shards
    ELSE idx.loaded_documents_shards

\* what load_term_stats_from_shard inserts into once the payload is read:
\* native loaded_term_stats_shards, web loaded_documents_shards
MarkTermStatsLoaded(v, idx, shard) ==
    IF v = "native"
    THEN [idx EXCEPT !.loaded_term_stats_shards = @ \cup {shard}]
    ELSE [idx EXCEPT !.loaded_documents_shards = @ \cup {shard}]

MarkDocumentStatsLoaded(idx, shard) ==
    [idx EXCEPT !.loaded_document_stats_shards = @ \cup {shard}]

MarkDocumentsLoaded(idx, shard) ==
    [idx EXCEPT !.loaded_documents_shards = @ \cup {shard}]

\* the lines of the body a response carries: the artifact, or an error page
Body(cat, shard, status) == IF IsSuccess(status) THEN Blob[cat][shard] ELSE ErrorPage

\* load_*_from_shard after the body has arrived: decode, merge, mark
Ingest(v, idx, cat, shard, lines) ==
    IF cat = "tst"
    THEN MarkTermStatsLoaded(v,
            [idx EXCEPT !.term_stats = load_term_stats_from_reader(@, lines)], shard)
    ELSE IF cat = "dst"
    THEN MarkDocumentStatsLoaded(
            [idx EXCEPT !.document_stats = load_document_stats_from_reader(@, lines)], shard)
    ELSE MarkDocumentsLoaded(
            [idx EXCEPT !.documents = load_documents_from_reader(v, @, lines)], shard)

\* the merge is counted when it goes into the handle's own store
CountIngest(t, status) ==
    ingests' = IF tasks[t].sid = 0 /\ IsSuccess(status)
               THEN [ingests EXCEPT ![tasks[t].cat][tasks[t].shard] = @ + 1]
               ELSE ingests

\* the task t moves on with the fields of rec changed
Goto(t, rec) == tasks' = [tasks EXCEPT ![t] = rec @@ tasks[t]]

\* outcomes of a search: "ok"; Err: "fetch_failed", "missing_document";
\* panics: "panic_rem_zero", "panic_no_term_stat", "panic_nan", "panic_slice",
\* "panic_borrow" (RefCell::borrow_mut while a Ref is alive)
Panic(t, why) ==
    /\ Goto(t, [pc |-> "done", outcome |-> why])
    /\ crashed' = TRUE
    /\ running' = 0
    /\ UNCHANGED <<variant, index, loader, fetches, ingests>>

Fail(t, why) ==
    /\ Goto(t, [pc |-> "done", outcome |-> why, held |-> FALSE])
    /\ running' = 0
    /\ UNCHANGED <<variant, index, loader, crashed, fetches, ingests>>

\* load_*_from_shard up to its first await: return at once when the shard is
\* in the loaded set, else ask the blob source (web: the task suspends)
EnsureShard(t, cat, shard, key, ret, rec) ==
    IF shard \in LoadedSet(index[tasks[t].sid], cat)
    THEN /\ Goto(t, [pc |-> ret, key |-> key,
                     calls |-> Append(tasks[t].calls, <<cat, shard>>)] @@ rec)
         /\ UNCHANGED <<variant, index, loader, running, crashed, fetches, ingests>>
    ELSE /\ Goto(t, [pc |-> "fetch", cat |-> cat, shard |-> shard, ret |-> ret, key |-> key,
                     calls |-> Append(tasks[t].calls, <<cat, shard>>),
                     log |-> Append(tasks[t].log, <<cat, shard, key>>)] @@ rec)
         /\ fetches' = [fetches EXCEPT ![cat][shard] = @ + 1]
         /\ running' = IF variant = "web" THEN 0 ELSE t
         /\ UNCHANGED <<variant, index, loader, crashed, ingests>>

\* native: File::open and the reader loop, in one go
FetchNative(t) ==
    /\ ~crashed /\ variant = "native" /\ running = t /\ tasks[t].pc = "fetch"
    /\ index' = [index EXCEPT ![tasks[t].sid] =
                    Ingest(variant, @, tasks[t].cat, tasks[t].shard,
                           Blob[tasks[t].cat][tasks[t].shard])]
    /\ CountIngest(t, 200)
    /\ Goto(t, [pc |-> tasks[t].ret])
    /\ UNCHANGED <<variant, loader, running, crashed, fetches>>

\* the number of non-2xx responses the tasks 1..t have been given
RECURSIVE BadResponses(_)
BadResponses(t) == IF t = 0 THEN 0 ELSE Len(tasks[t].bad) + BadResponses(t - 1)

\* web: the fetch promise resolves with a Response of some status;
\* response.text() is awaited next
FetchDone(t, status) ==
    /\ ~crashed /\ variant = "web" /\ running = 0 /\ tasks[t].pc = "fetch"
    /\ status \in StatusesOf(tasks[t].cat, tasks[t].shard)
    /\ IsSuccess(status) \/ BadResponses(MaxSearches) < MaxBadResponses
    /\ Goto(t, [pc |-> "text", status |-> status,
                bad |-> IF IsSuccess(status) THEN tasks[t].bad
                        ELSE Append(tasks[t].bad, <<tasks[t].cat, tasks[t].shard>>)])
    /\ UNCHANGED <<variant, index, loader, running, crashed, fetches, ingests>>

\* web: the fetch promise, or the text promise, is rejected
FetchFail(t) ==
    /\ ~crashed /\ variant = "web" /\ running = 0 /\ tasks[t].pc \in {"fetch", "text"}
    /\ Fail(t, "fetch_failed")

\* a task holds a Ref of the RefCell that the task t is about to borrow_mut
BorrowConflict(t) ==
    \E u \in TaskIds : tasks[u].held /\ tasks[u].sid = tasks[t].sid

\* web: the body has arrived: decode, merge, mark, and run on.  The merge
\* and the mark take this.borrow_mut().
TextDone(t) ==
    /\ ~crashed /\ variant = "web" /\ running = 0 /\ tasks[t].pc = "text"
    /\ IF BorrowConflict(t)
       THEN Panic(t, "panic_borrow")
       ELSE /\ index' = [index EXCEPT ![tasks[t].sid] =
                           Ingest(variant, @, tasks[t].cat, tasks[t].shard,
                                  Body(tasks[t].cat, tasks[t].shard, tasks[t].status))]
            /\ CountIngest(t, tasks[t].status)
            /\ Goto(t, [pc |-> tasks[t].ret])
            /\ running' = t
            /\ UNCHANGED <<variant, loader, crashed, fetches>>

(***************************************************************************)
(* search_with_options / do_search_with_options, step by step.  A task     *)
(* that holds the thread runs until it suspends at an await or ends.       *)
(***************************************************************************)
Store(t) == index[tasks[t].sid]

\* search_with_options without its `!opts.use_cache` branch
SearchStoreShared(t, use_cache) == 0

\* the store a search runs on: the handle's Index (id 0) when use_cache is
\* set, else an Index of its own
SearchStore(t, use_cache) == IF use_cache THEN 0 ELSE t

\* search_with_options before do_search_with_options: with use_cache unset,
\* Index::new and a copy of the handle's shard_count
StoresAtStart(t, use_cache) ==
    IF use_cache THEN index
    ELSE (SearchStore(t, use_cache) :> NewIndex(index[0].shard_count)) @@ index

\* Index::search / IndexHandle::search_with_options is called
StartSearch(t, q, o) ==
    /\ ~crashed /\ running = 0
    /\ tasks[t].pc = "idle"
    /\ \A u \in TaskIds : u < t => tasks[u].pc # "idle"
    /\ variant = "native" => o[3]
    /\ index' = StoresAtStart(t, o[3])
    /\ Goto(t, [pc |-> "term_loop", q |-> q, size |-> o[1], from |-> o[2],
                use_cache |-> o[3], sid |-> SearchStore(t, o[3]), i |-> 1,
                snap |-> IF \E u \in TaskIds : tasks[u].pc = "done"
                         THEN Snapshot(index[0]) ELSE Snapshot(NewIndex(0)),
                after |-> {u \in TaskIds : tasks[u].pc = "done"},
                overlapped |-> InFlight # {}])
    /\ running' = t
    /\ UNCHANGED <<variant, loader, crashed, fetches, ingests>>

\* the token loop taking the tokens last to first
TokenAtReversed(q, i) == TokensOf[q][Len(TokensOf[q]) + 1 - i]

\* `for token in &tokens`: the token of the i-th round
TokenAt(q, i) == TokensOf[q][i]

\* for token in &tokens { calculate_shard_id; load_term_stats_from_shard }
TermLoop(t) ==
    /\ ~crashed /\ running = t /\ tasks[t].pc = "term_loop"
    /\ LET toks == TokensOf[tasks[t].q]
           i == tasks[t].i
       IN  IF i > Len(toks)
           THEN /\ Goto(t, [pc |-> "find"])
                /\ UNCHANGED <<variant, index, loader, running, crashed, fetches, ingests>>
           ELSE IF Store(t).shard_count = 0
           THEN Panic(t, "panic_rem_zero")
           ELSE EnsureShard(t, "tst",
                            calculate_shard_id(variant, TokenAt(tasks[t].q, i), Store(t).shard_count),
                            TokenAt(tasks[t].q, i), "term_loop", [i |-> i + 1])

\* find_documents; the matched ids come out of the HashSet in some order
Find(t) ==
    /\ ~crashed /\ running = t /\ tasks[t].pc = "find"
    /\ \E order \in Orders(find_documents(Store(t).term_stats, TokensOf[tasks[t].q])) :
          Goto(t, [pc |-> "score", cands |-> order, ci |-> 1, ti |-> 1,
                   acc |-> ScoreZero, entries |-> <<>>])
    /\ UNCHANGED <<variant, index, loader, running, crashed, fetches, ingests>>

\* sort_documents / calculate_score: the next (document, token) pair;
\* term_frequency starts with fetch_document_stat
Score(t) ==
    /\ ~crashed /\ running = t /\ tasks[t].pc = "score"
    /\ LET toks == TokensOf[tasks[t].q]
           ci == tasks[t].ci
           ti == tasks[t].ti
       IN  IF ci > Len(tasks[t].cands)
           THEN /\ Goto(t, [pc |-> "sort"])
                /\ UNCHANGED <<variant, index, loader, running, crashed, fetches, ingests>>
           ELSE IF ti > Len(toks)
           THEN /\ Goto(t, [entries |-> Append(tasks[t].entries,
                                [document_id |-> tasks[t].cands[ci], score |-> tasks[t].acc]),
                            ci |-> ci + 1, ti |-> 1, acc |-> ScoreZero])
                /\ UNCHANGED <<variant, index, loader, running, crashed, fetches, ingests>>
           ELSE IF tasks[t].cands[ci] \in DOMAIN Store(t).document_stats
           THEN /\ Goto(t, [pc |-> "score_tf"])
                /\ UNCHANGED <<variant, index, loader, running, crashed, fetches, ingests>>
           ELSE IF Store(t).shard_count = 0
           THEN Panic(t, "panic_rem_zero")
           ELSE EnsureShard(t, "dst",
                            calculate_shard_id(variant, tasks[t].cands[ci], Store(t).shard_count),
                            tasks[t].cands[ci], "score_tf", <<>>)

\* the rest of term_frequency, then inverse_document_frequency, whose
\* term_stats[token] panics when the token has no entry
ScoreTf(t) ==
    /\ ~crashed /\ running = t /\ tasks[t].pc = "score_tf"
    /\ LET tok == TokensOf[tasks[t].q][tasks[t].ti]
           doc == tasks[t].cands[tasks[t].ci]
           tf  == term_frequency(Store(t).document_stats, doc, tok)
       IN  IF tok \notin DOMAIN Store(t).term_stats
           THEN Panic(t, "panic_no_term_stat")
           ELSE /\ Goto(t, [pc |-> "score",
                            acc |-> ScoreAdd(tasks[t].acc,
                                       TfIdf(tf, IdfNumerator(variant, Store(t)),
                                             document_frequency(Store(t).term_stats, tok))),
                            ti |-> tasks[t].ti + 1,
                            idf_counts |-> tasks[t].idf_counts
                                              \cup {IdfNumerator(variant, Store(t))}])
                /\ UNCHANGED <<variant, index, loader, running, crashed, fetches, ingests>>

\* sort_by, count, and fetch_hits up to its loop
Sort(t) ==
    /\ ~crashed /\ running = t /\ tasks[t].pc = "sort"
    /\ LET len == Len(tasks[t].entries)
       IN  IF SortPanics(tasks[t].entries)
           THEN Panic(t, "panic_nan")
           ELSE IF PagePanics(variant, len, tasks[t].size, tasks[t].from)
           THEN Panic(t, "panic_slice")
           ELSE /\ Goto(t, [pc |-> "hit",
                            sorted |-> StableSort(variant, tasks[t].entries),
                            count |-> len,
                            page |-> PagePositions(variant, len, tasks[t].size, tasks[t].from),
                            hi |-> 1, hits |-> <<>>])
                /\ UNCHANGED <<variant, index, loader, running, crashed, fetches, ingests>>

\* fetch_hits' loop: fetch_document of the next id of the page
Hit(t) ==
    /\ ~crashed /\ running = t /\ tasks[t].pc = "hit"
    /\ IF tasks[t].hi > Len(tasks[t].page)
       THEN /\ Goto(t, [pc |-> "done", outcome |-> "ok"])
            /\ running' = 0
            /\ UNCHANGED <<variant, index, loader, crashed, fetches, ingests>>
       ELSE IF Store(t).shard_count = 0
       THEN Fail(t, "missing_document")
       ELSE EnsureShard(t, "dcs",
                calculate_shard_id(variant, tasks[t].sorted[tasks[t].page[tasks[t].hi]].document_id,
                                   Store(t).shard_count),
                tasks[t].sorted[tasks[t].page[tasks[t].hi]].document_id, "hit_get", <<>>)

\* fetch_document after load_documents_from_shard: documents.get(document_id)
\* (web: through this.borrow_mut())
HitGet(t) ==
    /\ ~crashed /\ running = t /\ tasks[t].pc = "hit_get"
    /\ LET e == tasks[t].sorted[tasks[t].page[tasks[t].hi]]
       IN  IF variant = "web" /\ BorrowConflict(t)
           THEN Panic(t, "panic_borrow")
           ELSE IF e.document_id \in DOMAIN Store(t).documents
           THEN /\ Goto(t, [pc |-> "hit",
                            hits |-> Append(tasks[t].hits,
                                       [id |-> e.document_id, score |-> e.score,
                                        source |-> Store(t).documents[e.document_id]]),
                            hi |-> tasks[t].hi + 1])
                /\ UNCHANGED <<variant, index, loader, running, crashed, fetches, ingests>>
           ELSE Fail(t, "missing_document")

Next ==
    \/ LoadStart
    \/ \E status \in Statuses : LoadFetched(status)
    \/ LoadFailed
    \/ \E n \in ShardCountArtifacts : LoadText(n)
    \/ \E t \in TaskIds, q \in Queries, o \in SearchOpts : StartSearch(t, q, o)
    \/ \E t \in TaskIds : TermLoop(t)
    \/ \E t \in TaskIds : FetchNative(t)
    \/ \E t \in TaskIds, status \in Statuses : FetchDone(t, status)
    \/ \E t \in TaskIds : FetchFail(t)
    \/ \E t \in TaskIds : TextDone(t)
    \/ \E t \in TaskIds : Find(t)
    \/ \E t \in TaskIds : Score(t)
    \/ \E t \in TaskIds : ScoreTf(t)
    \/ \E t \in TaskIds : Sort(t)
    \/ \E t \in TaskIds : Hit(t)
    \/ \E t \in TaskIds : HitGet(t)

Spec == Init /\ [][Next]_vars

(***************************************************************************)
(* The web handle with the crate's public fetch_term_stat called next to   *)
(* the searches.                                                           *)
(***************************************************************************)
BorrowTokens == {"happy", "festival"}

\* fetch_term_stat (web).  `let term_stats = &this.borrow().term_stats` keeps
\* the Ref alive to the end of the body, so it is held over the await of
\* load_term_stats_from_shard in the else branch.
FetchTermStat(t, token) ==
    /\ ~crashed /\ variant = "web"
    /\ IF tasks[t].pc = "term_stat_get"
       THEN \* after the load: this.borrow().term_stats.get(token)
            /\ running = t /\ token = tasks[t].key
            /\ Goto(t, [pc |-> "done", held |-> FALSE,
                        outcome |-> IF token \in DOMAIN Store(t).term_stats
                                    THEN "found" ELSE "none"])
            /\ running' = 0
            /\ UNCHANGED <<variant, index, loader, crashed, fetches, ingests>>
       ELSE /\ running = 0 /\ tasks[t].pc = "idle"
            /\ \A u \in TaskIds : u < t => tasks[u].pc # "idle"
            /\ IF token \in DOMAIN index[0].term_stats
               THEN /\ Goto(t, [pc |-> "done", key |-> token, outcome |-> "found"])
                    /\ UNCHANGED <<variant, index, loader, running, crashed, fetches, ingests>>
               ELSE IF index[0].shard_count = 0
               THEN Panic(t, "panic_rem_zero")
               ELSE IF calculate_shard_id(variant, token, index[0].shard_count)
                          \in LoadedSet(index[0], "tst")
               THEN /\ Goto(t, [pc |-> "done", key |-> token, outcome |-> "none"])
                    /\ UNCHANGED <<variant, index, loader, running, crashed, fetches, ingests>>
               ELSE EnsureShard(t, "tst",
                                calculate_shard_id(variant, token, index[0].shard_count),
                                token, "term_stat_get", [held |-> TRUE])

BorrowInit == Init /\ variant = "web"

BorrowNext ==
    \/ LoadStart
    \/ \E status \in Statuses : LoadFetched(status)
    \/ LoadFailed
    \/ \E n \in ShardCountArtifacts : LoadText(n)
    \/ \E t \in TaskIds, q \in Queries, o \in SearchOpts : StartSearch(t, q, o)
    \/ \E t \in TaskIds, token \in BorrowTokens : FetchTermStat(t, token)
    \/ \E t \in TaskIds : TermLoop(t)
    \/ \E t \in TaskIds, status \in Statuses : FetchDone(t, status)
    \/ \E t \in TaskIds : FetchFail(t)
    \/ \E t \in TaskIds : TextDone(t)
    \/ \E t \in TaskIds : Find(t)
    \/ \E t \in TaskIds : Score(t)
    \/ \E t \in TaskIds : ScoreTf(t)
    \/ \E t \in TaskIds : Sort(t)
    \/ \E t \in TaskIds : Hit(t)
    \/ \E t \in TaskIds : HitGet(t)

BorrowSpec == BorrowInit /\ [][BorrowNext]_vars

(***************************************************************************)
(* The router on its own: a handle with any shard count between 1 and      *)
(* MaxShardCount, on which calculate_shard_id is called for any string,    *)
(* twice, with shard artifacts merged into the store between the calls.    *)
(***************************************************************************)
MaxShardCount == 5

\* how many artifacts are merged between the two calls
MaxRouterLoads == 1

RouterInit ==
    /\ variant \in {"native", "web"}
    /\ \E n \in 1..MaxShardCount : index = (0 :> NewIndex(n))
    /\ loader = "done"
    /\ tasks = [t \in TaskIds |-> IdleTask]
    /\ running = 0
    /\ crashed = FALSE
    /\ fetches = [c \in Categories |-> [k \in Shards |-> 0]]
    /\ ingests = [c \in Categories |-> [k \in Shards |-> 0]]

\* the two calls of the router are made by the tasks 1 and 2
RouterCallers == {1, 2}

\* let shard_id = calculate_shard_id(token, shard_count)
Route(t, s) ==
    /\ tasks[t].pc = "idle"
    /\ \A u \in RouterCallers : u < t => tasks[u].pc # "idle"
    /\ Goto(t, [pc |-> "routed", key |-> s,
                shard |-> calculate_shard_id(variant, s, index[0].shard_count)])
    /\ UNCHANGED <<variant, index, loader, running, crashed, fetches, ingests>>

RECURSIVE Loads(_)
Loads(cs) == IF cs = {} THEN 0
             ELSE LET c == CHOOSE x \in cs : TRUE
                  IN  ingests[c][0] + ingests[c][1] + Loads(cs \ {c})

\* load_*_from_shard between the first call of the router and the second
RouterLoad(cat, shard) ==
    /\ tasks[1].pc = "routed" /\ tasks[2].pc = "idle"
    /\ Loads(Categories) < MaxRouterLoads
    /\ index' = [index EXCEPT ![0] = Ingest(variant, @, cat, shard, Blob[cat][shard])]
    /\ ingests' = [ingests EXCEPT ![cat][shard] = @ + 1]
    /\ UNCHANGED <<variant, loader, tasks, running, crashed, fetches>>

RouterNext ==
    \/ \E t \in RouterCallers, s \in Str : Route(t, s)
    \/ \E cat \in Categories, shard \in Shards : RouterLoad(cat, shard)

RouterSpec == RouterInit /\ [][RouterNext]_vars

(***************************************************************************)
(* Properties                                                              *)
(***************************************************************************)
Done(t) == tasks[t].pc = "done"
Ok(t) == tasks[t].outcome = "ok"
HitIds(t) == [i \in 1..Len(tasks[t].hits) |-> tasks[t].hits[i].id]
Sequential == \A t \in TaskIds : ~tasks[t].overlapped
NoFetchFailed == \A t \in TaskIds : tasks[t].outcome # "fetch_failed"
AllCached == \A t \in TaskIds : tasks[t].use_cache
AllSuccess == \A t \in TaskIds : tasks[t].bad = <<>>

\* C1: over a sequence of search calls (none started while another is in
\* flight) whose fetches all succeed, every artifact (category, shard) is
\* asked of the blob source at most once.
C1_FetchedAtMostOnce ==
    (Sequential /\ NoFetchFailed /\ AllCached /\ AllSuccess) =>
        \A c \in Categories, k \in Shards : fetches[c][k] <= 1

\* C2: for each category, a shard id is in the loaded set exactly when a
\* payload of that shard and category has been merged into the store.
C2_LoadedIffIngested ==
    \A c \in Categories, k \in Shards :
        (k \in LoadedSet(index[0], c)) <=> (ingests[c][k] >= 1)

\* C3: web: however two searches interleave at their awaits, no payload is
\* merged into the store twice.  Stated for the two categories whose loaded
\* set is kept right (document-stats, documents), where only the
\* interleaving can produce a second merge.
C3_NoDoubleIngest ==
    variant = "web" =>
        \A c \in {"dst", "dcs"}, k \in Shards : ingests[c][k] <= 1

\* the intersection of the posting sets of the tokens that have an entry
PostingIntersection(term_stats, tokens) ==
    LET present == {tok \in Range(tokens) : tok \in DOMAIN term_stats}
        all == UNION {Range(term_stats[tok]) : tok \in present}
    IN  {d \in all : \A tok \in present : d \in Range(term_stats[tok])}

JustMatched(t) ==
    /\ running = t /\ tasks[t].pc = "score"
    /\ tasks[t].ci = 1 /\ tasks[t].ti = 1 /\ tasks[t].entries = <<>>

\* C4: what find_documents returns is the intersection of the posting sets
\* of all query tokens that have a term_stats entry.
C4_FindIsIntersection ==
    \A t \in TaskIds :
        JustMatched(t) =>
            Range(tasks[t].cands) = PostingIntersection(Store(t).term_stats, TokensOf[tasks[t].q])

\* C5: a token without a term_stats entry never makes a search abort.
C5_AbsentTokenNoAbort ==
    \A t \in TaskIds : tasks[t].outcome # "panic_no_term_stat"

\* C6: the hits of a successful search are in descending order of score.
C6_Descending ==
    \A t \in TaskIds :
        Ok(t) => \A i, j \in 1..Len(tasks[t].hits) :
                    i < j => Cmp(tasks[t].hits[i].score, tasks[t].hits[j].score) >= 0

\* C7: with size > 0 and from < |candidates| the page never fails on its
\* bounds, and a successful search returns the ids at the positions
\* from .. min(from + size, |candidates|) - 1 of the sorted list.
C7_Page ==
    \A t \in TaskIds :
        (Done(t) /\ tasks[t].size > 0 /\ tasks[t].from < Len(tasks[t].cands)) =>
            /\ tasks[t].outcome # "panic_slice"
            /\ Ok(t) =>
                HitIds(t) = [k \in 1..(Min(tasks[t].from + tasks[t].size, Len(tasks[t].cands)) - tasks[t].from)
                                |-> tasks[t].sorted[tasks[t].from + k].document_id]

\* C8: count is the number of candidates whatever size and from are, and
\* with size = 0 or from >= |candidates| there are no hits and the search
\* asked for no documents shard.
C8_CountAndEmptyPage ==
    \A t \in TaskIds :
        Ok(t) =>
            /\ tasks[t].count = Cardinality(Range(tasks[t].cands))
            /\ (tasks[t].size = 0 \/ tasks[t].from >= Cardinality(Range(tasks[t].cands))) =>
                  /\ tasks[t].hits = <<>>
                  /\ \A i \in 1..Len(tasks[t].log) : tasks[t].log[i][1] # "dcs"

\* a search with candidates ended well with size = 0, and another with
\* from >= |candidates|
C8_Witness ==
    \E t, u \in TaskIds :
        /\ Ok(t) /\ tasks[t].size = 0 /\ tasks[t].count >= 1 /\ tasks[t].hits = <<>>
        /\ Ok(u) /\ tasks[u].size > 0 /\ tasks[u].count >= 1
        /\ tasks[u].from >= tasks[u].count /\ tasks[u].hits = <<>>

\* C9: when fetch_document looks an id up, the documents payload of the
\* id's shard has been merged into the store, and the id (which the
\* payload holds) is found.
C9_HydratedFromDocumentsShard ==
    \A t \in TaskIds :
        tasks[t].use_cache =>
        /\ tasks[t].outcome # "missing_document"
        /\ tasks[t].pc = "hit_get" =>
              ingests["dcs"][calculate_shard_id(variant,
                                tasks[t].sorted[tasks[t].page[tasks[t].hi]].document_id,
                                Store(t).shard_count)] >= 1

SameScore(a, b) ==
    /\ a.kind = b.kind
    /\ a.kind = "fin" => a.num * b.den = b.num * a.den

\* C10: a search repeated with the same query and options after the first
\* has returned gives the same count, the same ids in the same order and
\* the same scores.
C10_Idempotent ==
    \A t, u \in TaskIds :
        (/\ t \in tasks[u].after /\ Ok(t) /\ Ok(u)
         /\ tasks[t].q = tasks[u].q /\ tasks[t].size = tasks[u].size
         /\ tasks[t].from = tasks[u].from /\ tasks[t].use_cache = tasks[u].use_cache) =>
            /\ tasks[t].count = tasks[u].count
            /\ HitIds(t) = HitIds(u)
            /\ \A i \in 1..Len(tasks[t].hits) : SameScore(tasks[t].hits[i].score, tasks[u].hits[i].score)

\* C11: web: every step of a search started with use_cache = false leaves
\* the handle's own store (its three maps and three loaded sets) as it was,
\* and the store such a search starts on is Index::new() with only
\* shard_count copied from the handle.
C11_NoCacheIsolated ==
    [][\A t \in TaskIds :
          (tasks'[t] # tasks[t] /\ ~tasks'[t].use_cache) =>
              /\ index'[0] = index[0]
              /\ tasks[t].pc = "idle" =>
                    index'[tasks'[t].sid] = NewIndex(index[0].shard_count)]_vars

\* a search without cache has returned hits out of a store of its own,
\* and the handle's store is still empty
C11_Witness ==
    \E t \in TaskIds :
        /\ ~tasks[t].use_cache /\ Ok(t) /\ Len(tasks[t].hits) >= 1
        /\ index[tasks[t].sid].term_stats # <<>>
        /\ index[tasks[t].sid].documents # <<>>
        /\ index[0] = NewIndex(Blob.shard_count)

\* the outcomes that are an Err handed back to the caller
ErrOutcomes == {"fetch_failed", "missing_document"}

\* C12: a search on a store whose shard_count is 0 ends with an error, and
\* has asked the blob source for nothing, whatever its token list is.
C12_EmptyIndexError ==
    \A t \in TaskIds :
        (Done(t) /\ Store(t).shard_count = 0) =>
            /\ tasks[t].outcome \in ErrOutcomes
            /\ tasks[t].log = <<>>

\* C13: once load has succeeded shard_count is at least 1, and no step
\* taken after that changes it.
C13_ShardCountFixed ==
    /\ [](loader = "done" => index[0].shard_count >= 1)
    /\ [][loader = "done" => index'[0].shard_count = index[0].shard_count]_vars

Routed(t) == tasks[t].pc = "routed"

\* C14: for every string and every shard count n >= 1 the native router
\* (usize arithmetic) gives the shard id of the 32-bit wrapping computation
\* ((sum of Q + c*c) * Q mod 2^32) mod n, which is what the web router (u32)
\* computes.
C14_NativeRouterIsU32 ==
    \A t \in TaskIds :
        (variant = "native" /\ Routed(t)) =>
            tasks[t].shard = calculate_shard_id("web", tasks[t].key, index[0].shard_count)

\* C15: the router's result is in 0 .. n-1, and two calls with the same
\* string on the handle give the same shard id, whatever was merged into
\* the store between them.
C15_RouterRangeAndPure ==
    \A t \in TaskIds :
        Routed(t) =>
            /\ tasks[t].shard \in 0..(index[0].shard_count - 1)
            /\ \A u \in TaskIds :
                  (Routed(u) /\ tasks[u].key = tasks[t].key) => tasks[u].shard = tasks[t].shard

\* the same string was routed twice on a handle of more than two shards,
\* to the last shard, with an artifact merged into the store in between
C15_Witness ==
    \E t, u \in TaskIds :
        /\ t # u /\ Routed(t) /\ Routed(u) /\ tasks[t].key = tasks[u].key
        /\ index[0].shard_count > 2
        /\ tasks[t].shard = index[0].shard_count - 1
        /\ index[0].term_stats # <<>>

\* the search t ended on a failed fetch of (cat, shard), and the search u,
\* started after t had returned, is the next to call load_*_from_shard for
\* that category and shard on the handle's store
NextEnsureAfterFailure(t, u) ==
    /\ t \in tasks[u].after
    /\ tasks[t].outcome = "fetch_failed"
    /\ tasks[t].use_cache /\ tasks[u].use_cache
    /\ <<tasks[t].cat, tasks[t].shard>> \in Range(tasks[u].calls)
    /\ \A v \in TaskIds \ {t, u} :
          ~tasks[v].use_cache \/ <<tasks[t].cat, tasks[t].shard>> \notin Range(tasks[v].calls)

\* C16: web: a fetch that fails leaves the store (maps and loaded sets) as
\* it was and ends the search with an error, and the next
\* load_*_from_shard call for the same category and shard asks the blob
\* source again.
C16_FailedFetchRetried ==
    /\ [](\A t, u \in TaskIds :
            NextEnsureAfterFailure(t, u) =>
                \E i \in 1..Len(tasks[u].log) :
                    /\ tasks[u].log[i][1] = tasks[t].cat
                    /\ tasks[u].log[i][2] = tasks[t].shard)
    /\ [][\A t \in TaskIds :
            (tasks[t].outcome # "fetch_failed" /\ tasks'[t].outcome = "fetch_failed") =>
                (index' = index /\ tasks'[t].pc = "done")]_vars

\* C17: web: when the response read for a shard artifact has a non-2xx
\* status, the step that reads it merges nothing into the store, marks no
\* shard as loaded and ends the search with an error; when the response read
\* for shard_count has a non-2xx status, load does not succeed and the store
\* is left as it was.
C17_Non2xxIsNotFound ==
    [][/\ \A t \in TaskIds :
            (/\ tasks[t].pc = "text" /\ ~IsSuccess(tasks[t].status)
             /\ tasks'[t] # tasks[t]) =>
                (index' = index /\ tasks'[t].outcome \in ErrOutcomes)
       /\ (loader = "text_non2xx" /\ loader' # loader) =>
                (index' = index /\ loader' \in {"failed", "panicked"})]_vars

\* a is b with some elements left out
RECURSIVE IsSubseqFrom(_, _, _, _)
IsSubseqFrom(a, b, i, j) ==
    IF i > Len(a) THEN TRUE
    ELSE IF j > Len(b) THEN FALSE
    ELSE IF a[i] = b[j] THEN IsSubseqFrom(a, b, i + 1, j + 1)
    ELSE IsSubseqFrom(a, b, i, j + 1)

IsSubseq(a, b) == IsSubseqFrom(a, b, 1, 1)

\* the keys (tokens, document ids) of the task's fetches of one category
FetchedKeys(t, cat) ==
    LET part == SelectSeq(tasks[t].log, LAMBDA e : e[1] = cat)
    IN  [i \in 1..Len(part) |-> part[i][3]]

Phase(cat) == IF cat = "tst" THEN 1 ELSE IF cat = "dst" THEN 2 ELSE 3

\* C18: the fetches of one search are term-stats fetches in the order of the
\* query tokens, then document-stats fetches in the order the candidates
\* are scored, then documents fetches in the order of the page; no fetch of
\* an earlier phase follows one of a later phase.
C18_FetchOrder ==
    \A t \in TaskIds :
        /\ \A i, j \in 1..Len(tasks[t].log) :
              i < j => Phase(tasks[t].log[i][1]) <= Phase(tasks[t].log[j][1])
        /\ IsSubseq(FetchedKeys(t, "tst"), TokensOf[tasks[t].q])
        /\ IsSubseq(FetchedKeys(t, "dst"), tasks[t].cands)
        /\ IsSubseq(FetchedKeys(t, "dcs"),
                    [k \in 1..Len(tasks[t].page) |-> tasks[t].sorted[tasks[t].page[k]].document_id])

\* a search that fetched term stats for two tokens, then document stats
\* for a candidate, then the documents of a hit, has returned
C18_Witness ==
    \E t \in TaskIds :
        /\ Ok(t)
        /\ Len(FetchedKeys(t, "tst")) >= 2
        /\ Len(FetchedKeys(t, "dst")) >= 1
        /\ Len(FetchedKeys(t, "dcs")) >= 1
        /\ Len(tasks[t].hits) >= 1

\* the search t ran on a store nothing had been loaded into, and alone
Fresh(t) ==
    \/ ~tasks[t].use_cache
    \/ /\ tasks[t].after = {} /\ ~tasks[t].overlapped
       /\ \A u \in TaskIds \ {t} : tasks[u].pc = "idle" \/ t \in tasks[u].after

\* the artifacts the search t needs: term stats of its tokens, document
\* stats of its candidates, documents of its hits
NeededArtifacts(t) ==
    LET n == Store(t).shard_count
    IN  {<<"tst", calculate_shard_id(variant, tok, n)>> : tok \in Range(TokensOf[tasks[t].q])}
        \cup {<<"dst", calculate_shard_id(variant, d, n)>> : d \in Range(tasks[t].cands)}
        \cup {<<"dcs", calculate_shard_id(variant, id, n)>> : id \in Range(HitIds(t))}

\* C19: a successful search on a freshly opened handle, every response
\* being a 2xx, fetches the artifacts it needs and no other, each once.
C19_ExactFetchSet ==
    \A t \in TaskIds :
        (Ok(t) /\ Fresh(t) /\ tasks[t].bad = <<>>) =>
            /\ {<<e[1], e[2]>> : e \in Range(tasks[t].log)} = NeededArtifacts(t)
            /\ \A i, j \in 1..Len(tasks[t].log) :
                  (tasks[t].log[i][1] = tasks[t].log[j][1] /\ tasks[t].log[i][2] = tasks[t].log[j][2])
                      => i = j

\* every entry of the map m is in n with the same value
Preserved(m, n) == \A k \in DOMAIN m : k \in DOMAIN n /\ n[k] = m[k]

\* C20: whatever a later search does, every entry that documents,
\* document_stats and term_stats of the handle held when it started (and so
\* every entry they held when an earlier search returned) is still there
\* with the same value: posting lists keep their content and length.
C20_StoreMonotonic ==
    \A u \in TaskIds :
        (tasks[u].after # {} /\ tasks[u].use_cache) =>
            /\ Preserved(tasks[u].snap.documents, index[0].documents)
            /\ Preserved(tasks[u].snap.document_stats, index[0].document_stats)
            /\ Preserved(tasks[u].snap.term_stats, index[0].term_stats)

\* the (document, token) pair the task t is scoring
ScoredToken(t) == TokensOf[tasks[t].q][tasks[t].ti]
ScoredDocument(t) == tasks[t].cands[tasks[t].ci]

\* the task t adds tf * idf of its current pair to the score
AddsTerm(t) == tasks[t].pc = "score_tf" /\ tasks'[t].pc = "score"

\* C21: the term added to a score is tf * log10(|document_stats| / df) with
\* df the length of the token's posting list: the numerator of idf is the
\* number of document_stats entries loaded at that moment.
C21_IdfNumerator ==
    [][\A t \in TaskIds :
          AddsTerm(t) =>
              tasks'[t].acc =
                  ScoreAdd(tasks[t].acc,
                           TfIdf(term_frequency(Store(t).document_stats,
                                                ScoredDocument(t), ScoredToken(t)),
                                 Cardinality(DOMAIN Store(t).document_stats),
                                 Len(Store(t).term_stats[ScoredToken(t)])))]_vars

\* the rows of the documents artifacts: each with the header row of its payload
DocumentRows ==
    UNION {{<<Blob.dcs[k][1], Blob.dcs[k][j]>> : j \in 2..Len(Blob.dcs[k])} : k \in Shards}

\* C22: a stored document holds, for every header beyond the id column, the
\* cell of its row under that header, and no id key; so the source of every
\* hit of a successful search has the key "title".
C22_DocumentBody ==
    /\ \A s \in DOMAIN index, hr \in DocumentRows :
          hr[2][1] \in DOMAIN index[s].documents =>
              LET doc == index[s].documents[hr[2][1]]
              IN  /\ \A i \in 2..Len(hr[1]) :
                        /\ hr[1][i] \in DOMAIN doc
                        /\ doc[hr[1][i]] = hr[2][i]
                  /\ hr[1][1] \notin DOMAIN doc
    /\ \A t \in TaskIds :
          Ok(t) => \A h \in 1..Len(tasks[t].hits) :
                      "title" \in DOMAIN tasks[t].hits[h].source

\* C23: with from = 0, the hits of a search are a prefix (ids, order and
\* scores) of the hits of a later search of the same query with a size at
\* least as large.
C23_SizeMonotonic ==
    \A t, u \in TaskIds :
        (/\ t \in tasks[u].after /\ Ok(t) /\ Ok(u)
         /\ tasks[t].q = tasks[u].q /\ tasks[t].use_cache = tasks[u].use_cache
         /\ tasks[t].from = 0 /\ tasks[u].from = 0
         /\ tasks[u].size >= tasks[t].size) =>
            /\ Len(tasks[t].hits) <= Len(tasks[u].hits)
            /\ \A i \in 1..Len(tasks[t].hits) :
                  /\ tasks[t].hits[i].id = tasks[u].hits[i].id
                  /\ SameScore(tasks[t].hits[i].score, tasks[u].hits[i].score)

\* C24: once a payload has been merged into the handle's store, every line
\* of it is there, the first included: each term-stats line's ids in the
\* posting list of its token, each document-stats line's counts under its
\* id, and a document for each row after the header row.
C24_EveryLineIngested ==
    \A k \in Shards :
        /\ ingests["tst"][k] >= 1 =>
              \A i \in 1..Len(Blob.tst[k]) :
                  /\ Blob.tst[k][i].term \in DOMAIN index[0].term_stats
                  /\ Range(Blob.tst[k][i].document_ids)
                        \subseteq Range(index[0].term_stats[Blob.tst[k][i].term])
        /\ ingests["dst"][k] >= 1 =>
              \A i \in 1..Len(Blob.dst[k]) :
                  /\ Blob.dst[k][i].id \in DOMAIN index[0].document_stats
                  /\ \A j \in 1..Len(Blob.dst[k][i].tfs) :
                        LET tf == Blob.dst[k][i].tfs[j]
                            ds == index[0].document_stats[Blob.dst[k][i].id]
                        IN  tf[1] \in DOMAIN ds /\ ds[tf[1]] = tf[2]
        /\ ingests["dcs"][k] >= 1 =>
              \A i \in 2..Len(Blob.dcs[k]) :
                  Blob.dcs[k][i][1] \in DOMAIN index[0].documents

\* the ids of the page that sort_by and fetch_hits make of the scored entries
PageIds(t, entries) ==
    [i \in 1..Len(tasks[t].page) |->
        StableSort(variant, entries)[tasks[t].page[i]].document_id]

\* C25: the hits of a successful search do not depend on the order in which
\* the candidates came out of the hash set: with the same scores, every
\* order of the candidates gives the same hits in the same order.
C25_TieBreakDeterministic ==
    \A t \in TaskIds :
        Ok(t) => \A entries \in Orders(Range(tasks[t].entries)) :
                    PageIds(t, entries) = HitIds(t)

\* the query is stop-words, in any letter case, with single spaces between
IsStopWordQuery(q) ==
    LET cs == CodePoints[q]
        frags == lowercase_filter(Split(cs))
    IN  /\ \A i \in 1..Len(cs) : cs[i] \in Delimiters => cs[i] = 32
        /\ \A i \in 1..Len(frags) : frags[i] # <<>> /\ Intern(frags[i]) \in STOP_WORDS

\* C26: a search whose query is stop-words separated by single spaces has an
\* empty token list, asks the blob source for nothing, and returns count 0
\* and no hits.
C26_StopWordQuery ==
    \A t \in TaskIds :
        (tasks[t].pc # "idle" /\ IsStopWordQuery(tasks[t].q)) =>
            /\ TokensOf[tasks[t].q] = <<>>
            /\ tasks[t].log = <<>>
            /\ tasks[t].calls = <<>>
            /\ Done(t) => Ok(t) /\ tasks[t].count = 0 /\ tasks[t].hits = <<>>

\* a search of two stop-words has returned on a loaded handle
C26_Witness ==
    \E t \in TaskIds :
        /\ Done(t) /\ Ok(t) /\ IsStopWordQuery(tasks[t].q)
        /\ Len(Split(CodePoints[tasks[t].q])) >= 2
        /\ Store(t).shard_count >= 1

\* C27 as stated: on a handle of two shards the router sends "lunar" to
\* shard 0, "new" to shard 1 and "year" to shard 0.
C27_FixtureRouting ==
    \A t \in RouterCallers :
        (Routed(t) /\ index[0].shard_count = 2) =>
            /\ tasks[t].key = "lunar" => tasks[t].shard = 0
            /\ tasks[t].key = "new" => tasks[t].shard = 1
            /\ tasks[t].key = "year" => tasks[t].shard = 0

\* C27, amended: on a handle of two shards the router sends "lunar", "new"
\* and "year" to shard 1, in the 32-bit wrapping arithmetic of the web build
\* and in the usize arithmetic of the native build alike.
C27_FixtureRoutingAmended ==
    \A t \in RouterCallers :
        (Routed(t) /\ index[0].shard_count = 2
         /\ tasks[t].key \in {"lunar", "new", "year"}) =>
            /\ tasks[t].shard = 1
            /\ tasks[t].shard = calculate_shard_id("web", tasks[t].key, 2)

\* the web router has been called for "lunar" and for "year" on a handle of
\* two shards
C27_Witness ==
    /\ variant = "web" /\ index[0].shard_count = 2
    /\ \E t, u \in RouterCallers :
          /\ Routed(t) /\ tasks[t].key = "lunar"
          /\ Routed(u) /\ tasks[u].key = "year"

\* the store of t has no count for the pair: no document_stats entry for d,
\* or an entry without the token
NoCount(t, d, tok) ==
    \/ d \notin DOMAIN Store(t).document_stats
    \/ tok \notin DOMAIN Store(t).document_stats[d]

\* the search t has scored a candidate that has no count for one of the tokens
ScoredWithoutCount(t) ==
    \E i \in 1..Len(tasks[t].entries), j \in 1..Len(TokensOf[tasks[t].q]) :
        NoCount(t, tasks[t].entries[i].document_id, TokensOf[tasks[t].q][j])

\* C28: a (document, token) pair without a count (no document_stats entry
\* after the load, or an entry without the token) adds tf = 0 to the score;
\* a search that has scored such a pair does not fail when it sorts; and
\* scoring asks for a document-stats shard only for a candidate that has no
\* document_stats entry.
C28_AbsentCountIsZero ==
    [][\A t \in TaskIds :
          /\ (AddsTerm(t) /\ NoCount(t, ScoredDocument(t), ScoredToken(t))) =>
                tasks'[t].acc =
                    ScoreAdd(tasks[t].acc,
                             TfIdf(0, IdfNumerator(variant, Store(t)),
                                   document_frequency(Store(t).term_stats, ScoredToken(t))))
          /\ (tasks[t].pc = "sort" /\ tasks'[t].pc # "sort" /\ ScoredWithoutCount(t)) =>
                tasks'[t].outcome # "panic_nan"
          /\ (tasks[t].pc = "score" /\ tasks'[t].pc = "fetch") =>
                ScoredDocument(t) \notin DOMAIN Store(t).document_stats]_vars

\* the task t is suspended on a blob fetch (the request or the body)
Suspended(t) == tasks[t].pc \in {"fetch", "text"}

\* C29: web: no task holds a borrow of the store while it is suspended on a
\* blob fetch, and no task ends in a borrow conflict.
C29_NoBorrowAcrossFetch ==
    \A t \in TaskIds :
        /\ Suspended(t) => ~tasks[t].held
        /\ tasks[t].outcome # "panic_borrow"

\* the task t is about to evaluate idf of its current token (the token has
\* a term_stats entry, so document_frequency does not panic)
EvaluatesIdf(t) ==
    /\ tasks[t].pc = "score_tf"
    /\ ScoredToken(t) \in DOMAIN Store(t).term_stats

\* C30: whenever idf of a token is evaluated, the document count it divides
\* and the token's document frequency are both at least 1.
C30_IdfArgumentsPositive ==
    \A t \in TaskIds :
        EvaluatesIdf(t) =>
            /\ IdfNumerator(variant, Store(t)) >= 1
            /\ document_frequency(Store(t).term_stats, ScoredToken(t)) >= 1

\* C31: all the idf evaluations of one search divide the same document
\* count: the numerator does not change between the candidates of a search.
C31_OneCountPerSearch ==
    \A t \in TaskIds : Cardinality(tasks[t].idf_counts) <= 1

\* C32: a successful search returns at most size hits and at most count
\* hits, no id twice, only ids that find_documents returned, and each hit
\* with the score calculate_score gave for its id.
C32_ResultShape ==
    \A t \in TaskIds :
        Ok(t) =>
            /\ Len(tasks[t].hits) <= tasks[t].size
            /\ Len(tasks[t].hits) <= tasks[t].count
            /\ \A i, j \in 1..Len(tasks[t].hits) :
                  i # j => tasks[t].hits[i].id # tasks[t].hits[j].id
            /\ \A i \in 1..Len(tasks[t].hits) :
                  /\ tasks[t].hits[i].id \in Range(tasks[t].cands)
                  /\ \E e \in 1..Len(tasks[t].entries) :
                        /\ tasks[t].entries[e].document_id = tasks[t].hits[i].id
                        /\ tasks[t].entries[e].score = tasks[t].hits[i].score

\* a search with two candidates and size 1 has returned one hit, and a
\* search has returned two hits
C32_Witness ==
    \E t, u \in TaskIds :
        /\ Ok(t) /\ tasks[t].size = 1 /\ tasks[t].count = 2 /\ Len(tasks[t].hits) = 1
        /\ Ok(u) /\ Len(tasks[u].hits) = 2

============================================================================
